---- MODULE Spec2Model ----
(***************************************************************************)
(* Model of videoflow/environments/queues.py: the two queue messengers     *)
(* (BatchprocessingQueueMessenger, RealtimeQueueMessenger) and the         *)
(* QueueExecutionEnvironment that wires them to multiprocessing queues.    *)
(***************************************************************************)
EXTENDS Integers, Sequences, FiniteSets, TLC

\* ------------------------------------------------------------------ bounds
\* Calls of one send method allowed to the node that is driven past a full
\* channel; publish_message calls allowed to a node otherwise; calls allowed
\* to a node of passthrough_message, and of the two termination methods.
MaxBurst == 11
MaxFew == 2
MaxOther == 1
\* Calls in all in the runs where every node may call every method.
MaxCalls == 4
\* KeyboardInterrupts delivered while join_task_processes runs.
MaxInterrupts == 2
\* receive_message calls allowed to each node.
MaxRecv == 2
\* Times in a run that a messenger mutates an envelope it has put while the
\* queue's feeder thread has not pickled it yet.
MaxRaces == 1
\* Entries of the flattened topology handed to startup, and accelerators the
\* probe may report.
MaxTasks == 3
MaxGpus == 2

\* ------------------------------------------------------- program constants
\* Queue(10): the maxsize of every task output queue.
QueueMaxsize == 10

BATCH == "batch"
REALTIME == "realtime"
\* Python's None where an envelope is expected. No code path builds an empty
\* dict, so the empty mapping is free to stand for it.
None == << >>
NoError == "none"
\* self._task_output_queues.get(parent_node_id, None) found no queue.
NoQueue == "no queue"

\* Node identities of the flattened topology (tasks_data[i][1]), a chain.
Nodes == {"A", "B", "C"}

VARIABLES
    flow_type,              \* QueueExecutionEnvironment._flow_type
    task_output_queues,     \* _task_output_queues: node id -> queue contents
    parent_task_queue,      \* messenger._parent_task_queue, as the key of the queue
    parent_nodes_ids,       \* messenger._parent_nodes_ids
    last_message_received,  \* messenger._last_message_received
    termination_event,      \* the shared multiprocessing.Event
    blocked,                \* per unit: "no", or "put"/"get" while inside a blocking call
    pending,                \* per unit: the object a blocked put is waiting to enqueue
    raised,                 \* per unit: the exception that escaped its last call, or NoError
    npub,                   \* history: number of send calls each messenger has made
    got,                    \* history: tags of the envelopes removed from each channel
    inputs,                 \* history: what each messenger's last receive_message returned
    signalled,              \* history: signal_flow_termination() has been called
    races,                  \* history: mutations that reached an unpickled entry
    budget,                 \* send calls each node may still make (bounds the run)
    tasks_data,             \* the argument of _al_create_and_start_processes
    nb_available_gpus,      \* self._nb_available_gpus
    next_gpu,               \* self._next_gpu
    queue_keys,             \* the keys of self._task_output_queues
    event_made,             \* self._termination_event is not None
    tasks,                  \* the local list tasks
    procs,                  \* self._procs
    started,                \* how many of self._procs have had start() called
    step,                   \* where _al_create_and_start_processes stands
    startup_error,          \* the exception it raised, or NoError
    recorded,               \* history: the inputs the sink task has consumed, in order
    exited,                 \* the units of self._procs whose process has ended
    join,                   \* where join_task_processes stands
    interrupts,             \* KeyboardInterrupts delivered to the caller of join so far
    unit_pc,                \* where each unit stands in its task's run loop
    units,                  \* the started units: how far each is, and its CUDA_VISIBLE_DEVICES
    blocked_at_signal       \* history: blocked, as it was at the first signal_flow_termination()

vars == <<flow_type, task_output_queues, parent_task_queue, parent_nodes_ids,
          last_message_received, termination_event, blocked, pending,
          raised, npub, got, inputs, signalled, races, budget,
          tasks_data, nb_available_gpus, next_gpu, queue_keys, event_made,
          tasks, procs, started, step, startup_error, recorded,
          exited, join, interrupts, unit_pc, units, blocked_at_signal>>

\* The execution environment's startup state.
startup == <<tasks_data, nb_available_gpus, next_gpu, queue_keys, event_made,
             tasks, procs, started, step, startup_error, units>>

\* The state of the messengers and of the channels.
messengers == <<flow_type, task_output_queues, parent_task_queue, parent_nodes_ids,
                last_message_received, termination_event, blocked, pending,
                raised, npub, got, inputs, signalled, races, budget>>

\* What the tasks that drive the messengers keep.
shutdown == <<exited, join, interrupts, unit_pc>>

workers == <<recorded, shutdown, blocked_at_signal>>

\* What never changes after the messengers are constructed.
wiring == <<flow_type, parent_task_queue, parent_nodes_ids>>

\* -------------------------------------------------------------- envelopes
\* Mutant of Stamp: the envelope is rebuilt from the sender's entry alone.
Stamp_fresh(env, n, message) == (n :> message)

\* msg = {node_id: message} and d[node_id] = message on a dict.
Stamp(env, n, message) == (n :> message) @@ env

\* A queue entry: the object put, whether the putting messenger still holds
\* (and may mutate) that very object, and a history tag: the number of the
\* send call, the method called, and the number (on the inbound channel) of
\* the envelope the sender had last received, 0 for none.
Entry(env, alias, tag) == [env |-> env, alias |-> alias, tag |-> tag]

LastReceived(n) ==
    IF parent_task_queue[n] = NoQueue THEN 0
    ELSE IF Len(got[parent_task_queue[n]]) = 0 THEN 0
    ELSE got[parent_task_queue[n]][Len(got[parent_task_queue[n]])].id

Tag(n, by) == [id |-> npub[n] + 1, by |-> by, src |-> LastReceived(n)]

\* The trailing entries of q that are the sender's live object.
NumAliased(q) ==
    IF races < MaxRaces THEN Cardinality({i \in 1..Len(q) : q[i].alias}) ELSE 0

\* self._last_message_received[id] = message mutates the dict in place.
\* multiprocessing.Queue pickles an object in its feeder thread, after put()
\* has returned, so of the entries that are this same dict the last k (not yet
\* pickled) carry the new content; the earlier ones were pickled already.
MutateInPlace(q, newenv, k) ==
    [i \in 1..Len(q) |->
        IF q[i].alias
        THEN IF i > Len(q) - k THEN [q[i] EXCEPT !.env = newenv]
                               ELSE [q[i] EXCEPT !.alias = FALSE]
        ELSE q[i]]

\* Rebinding _last_message_received leaves the old dict to the queue alone.
Unalias(q) == [i \in 1..Len(q) |-> [q[i] EXCEPT !.alias = FALSE]]

\* Mutant of Full: the queue admits one envelope more than its maxsize.
Full_after_one_more(n) == Len(task_output_queues[n]) > QueueMaxsize

Full(n) == Len(task_output_queues[n]) >= QueueMaxsize

\* ------------------------------------------------------ multiprocessing.Queue
\* Mutant of Queue_put: the queue is created without a maxsize.
Queue_put_unbounded(n, q, obj, alias, block, by) ==
    /\ npub' = [npub EXCEPT ![n] = @ + 1]
    /\ task_output_queues' =
           [task_output_queues EXCEPT ![n] = Append(q, Entry(obj, alias, Tag(n, by)))]
    /\ UNCHANGED <<blocked, pending>>

\* self._task_queue.put(obj, block) by node n's messenger, q being the queue
\* as the call finds it. With room the entry is appended; without room a
\* blocking put waits inside the call and a non-blocking put raises queue.Full,
\* which every caller of the non-blocking form swallows (except: pass).
Queue_put(n, q, obj, alias, block, by) ==
    LET e == Entry(obj, alias, Tag(n, by))
    IN  /\ npub' = [npub EXCEPT ![n] = @ + 1]
        /\ IF Len(q) < QueueMaxsize
           THEN /\ task_output_queues' = [task_output_queues EXCEPT ![n] = Append(q, e)]
                /\ UNCHANGED <<blocked, pending>>
           ELSE /\ task_output_queues' = [task_output_queues EXCEPT ![n] = q]
                /\ blocked' = [blocked EXCEPT ![n] = IF block THEN "put" ELSE @]
                /\ pending' = [pending EXCEPT ![n] = IF block THEN <<e>> ELSE @]

\* A put that was waiting for room gets it: the entry is appended and the
\* call returns.
Queue_put_unblock(n) ==
    /\ blocked[n] = "put"
    /\ ~Full(n)
    /\ task_output_queues' = [task_output_queues EXCEPT ![n] = Append(@, pending[n][1])]
    /\ blocked' = [blocked EXCEPT ![n] = "no"]
    /\ pending' = [pending EXCEPT ![n] = << >>]
    /\ UNCHANGED <<wiring, last_message_received, termination_event, raised,
                   npub, got, inputs, signalled, races>>

\* Mutant of Lookup: the values come out in the reverse of the parent order.
Lookup_reversed(n, env) ==
    [i \in 1..Len(parent_nodes_ids[n]) |->
        env[parent_nodes_ids[n][Len(parent_nodes_ids[n]) + 1 - i]]]

\* Mutant of Lookup: every parent identity is resolved to the source's entry.
Lookup_source(n, env) == [i \in 1..Len(parent_nodes_ids[n]) |-> env["A"]]

\* [input_message_dict[a] for a in self._parent_nodes_ids]
Lookup(n, env) == [i \in 1..Len(parent_nodes_ids[n]) |-> env[parent_nodes_ids[n][i]]]

LookupError(n, env) ==
    IF parent_nodes_ids[n] = << >> THEN NoError
    ELSE IF env = None THEN "TypeError"
    ELSE IF \E i \in 1..Len(parent_nodes_ids[n]) : parent_nodes_ids[n][i] \notin DOMAIN env
         THEN "KeyError"
    ELSE NoError

\* What a messenger's send leaves alone.
send_frame == <<wiring, termination_event, raised, got, inputs, signalled>>

\* ------------------------------------------ BatchprocessingQueueMessenger
\* Mutant of Batch_publish_message: the puts do not block.
Batch_publish_message_drop(n, message) ==
    IF last_message_received[n] = None
    THEN /\ Queue_put(n, task_output_queues[n], n :> message, FALSE, FALSE, "publish")
         /\ UNCHANGED <<last_message_received, races, send_frame>>
    ELSE LET msg == Stamp(last_message_received[n], n, message)
         IN  /\ last_message_received' = [last_message_received EXCEPT ![n] = msg]
             /\ \E k \in 0..NumAliased(task_output_queues[n]) :
                    /\ Queue_put(n, MutateInPlace(task_output_queues[n], msg, k), msg, TRUE, FALSE, "publish")
                    /\ races' = IF k > 0 THEN races + 1 ELSE races
             /\ UNCHANGED send_frame

Batch_publish_message(n, message) ==
    IF last_message_received[n] = None
    THEN /\ Queue_put(n, task_output_queues[n], n :> message, FALSE, TRUE, "publish")
         /\ UNCHANGED <<last_message_received, races, send_frame>>
    ELSE LET msg == Stamp(last_message_received[n], n, message)
         IN  /\ last_message_received' = [last_message_received EXCEPT ![n] = msg]
             /\ \E k \in 0..NumAliased(task_output_queues[n]) :
                    /\ Queue_put(n, MutateInPlace(task_output_queues[n], msg, k), msg, TRUE, TRUE, "publish")
                    /\ races' = IF k > 0 THEN races + 1 ELSE races
             /\ UNCHANGED send_frame

\* Mutant of Batch_passthrough_message: an empty message is sent in place of
\* the last received envelope.
Batch_passthrough_message_none(n) ==
    /\ Queue_put(n, task_output_queues[n], None, FALSE, TRUE, "passthrough")
    /\ UNCHANGED <<last_message_received, races, send_frame>>

Batch_passthrough_message(n) ==
    /\ Queue_put(n, task_output_queues[n], last_message_received[n],
                 last_message_received[n] # None, TRUE, "passthrough")
    /\ UNCHANGED <<last_message_received, races, send_frame>>

Batch_publish_termination_message(n, message) == Batch_publish_message(n, message)

Batch_passthrough_termination_message(n) == Batch_passthrough_message(n)

\* ------------------------------------------------- RealtimeQueueMessenger
Realtime_publish_message(n, message) ==
    IF last_message_received[n] = None
    THEN /\ Queue_put(n, task_output_queues[n], n :> message, FALSE, FALSE, "publish")
         /\ UNCHANGED <<last_message_received, races, send_frame>>
    ELSE LET msg == Stamp(last_message_received[n], n, message)
         IN  /\ last_message_received' = [last_message_received EXCEPT ![n] = msg]
             /\ \E k \in 0..NumAliased(task_output_queues[n]) :
                    /\ Queue_put(n, MutateInPlace(task_output_queues[n], msg, k), msg, TRUE, FALSE, "publish")
                    /\ races' = IF k > 0 THEN races + 1 ELSE races
             /\ UNCHANGED send_frame

\* Mutant of Realtime_publish_termination_message: the puts do not block.
Realtime_publish_termination_message_drop(n, message) ==
    IF last_message_received[n] = None
    THEN /\ Queue_put(n, task_output_queues[n], n :> message, FALSE, FALSE, "publish_termination")
         /\ UNCHANGED <<last_message_received, races, send_frame>>
    ELSE LET msg == Stamp(last_message_received[n], n, message)
         IN  /\ last_message_received' = [last_message_received EXCEPT ![n] = msg]
             /\ \E k \in 0..NumAliased(task_output_queues[n]) :
                    /\ Queue_put(n, MutateInPlace(task_output_queues[n], msg, k), msg, TRUE, FALSE, "publish_termination")
                    /\ races' = IF k > 0 THEN races + 1 ELSE races
             /\ UNCHANGED send_frame

Realtime_publish_termination_message(n, message) ==
    IF last_message_received[n] = None
    THEN /\ Queue_put(n, task_output_queues[n], n :> message, FALSE, TRUE, "publish_termination")
         /\ UNCHANGED <<last_message_received, races, send_frame>>
    ELSE LET msg == Stamp(last_message_received[n], n, message)
         IN  /\ last_message_received' = [last_message_received EXCEPT ![n] = msg]
             /\ \E k \in 0..NumAliased(task_output_queues[n]) :
                    /\ Queue_put(n, MutateInPlace(task_output_queues[n], msg, k), msg, TRUE, TRUE, "publish_termination")
                    /\ races' = IF k > 0 THEN races + 1 ELSE races
             /\ UNCHANGED send_frame

Realtime_passthrough_message(n) ==
    /\ Queue_put(n, task_output_queues[n], last_message_received[n],
                 last_message_received[n] # None, FALSE, "passthrough")
    /\ UNCHANGED <<last_message_received, races, send_frame>>

Realtime_passthrough_termination_message(n) ==
    /\ Queue_put(n, task_output_queues[n], last_message_received[n],
                 last_message_received[n] # None, TRUE, "passthrough_termination")
    /\ UNCHANGED <<last_message_received, races, send_frame>>

\* ------------------------------------------------ the messenger of the run
\* if self._flow_type == BATCH: ... elif self._flow_type == REALTIME: ...
publish_message(n, message) ==
    IF flow_type = BATCH THEN Batch_publish_message(n, message)
                         ELSE Realtime_publish_message(n, message)

publish_termination_message(n, message) ==
    IF flow_type = BATCH THEN Batch_publish_termination_message(n, message)
                         ELSE Realtime_publish_termination_message(n, message)

passthrough_message(n) ==
    IF flow_type = BATCH THEN Batch_passthrough_message(n)
                         ELSE Realtime_passthrough_message(n)

passthrough_termination_message(n) ==
    IF flow_type = BATCH THEN Batch_passthrough_termination_message(n)
                         ELSE Realtime_passthrough_termination_message(n)

\* return self._termination_event.is_set()
check_for_termination(n) == termination_event

\* Mutant of Queue_get: the newest envelope is taken instead of the oldest.
Queue_get_lifo(n) ==
    LET p == parent_task_queue[n]
        q == task_output_queues[p]
        e == q[Len(q)]
    IN  /\ task_output_queues' = [task_output_queues EXCEPT ![p] = SubSeq(q, 1, Len(q) - 1),
                                                           ![n] = Unalias(@)]
        /\ last_message_received' = [last_message_received EXCEPT ![n] = e.env]
        /\ got' = [got EXCEPT ![p] = Append(@, e.tag)]
        /\ raised' = [raised EXCEPT ![n] = LookupError(n, e.env)]
        /\ inputs' = [inputs EXCEPT ![n] =
                         IF LookupError(n, e.env) = NoError THEN Lookup(n, e.env) ELSE @]
        /\ blocked' = [blocked EXCEPT ![n] = "no"]

\* input_message_dict = self._parent_task_queue.get() has its envelope: the
\* rest of receive_message. A lookup that fails raises after the envelope
\* was taken and recorded.
Queue_get(n) ==
    LET p == parent_task_queue[n]
        e == Head(task_output_queues[p])
    IN  /\ task_output_queues' = [task_output_queues EXCEPT ![p] = Tail(@),
                                                           ![n] = Unalias(@)]
        /\ last_message_received' = [last_message_received EXCEPT ![n] = e.env]
        /\ got' = [got EXCEPT ![p] = Append(@, e.tag)]
        /\ raised' = [raised EXCEPT ![n] = LookupError(n, e.env)]
        /\ inputs' = [inputs EXCEPT ![n] =
                         IF LookupError(n, e.env) = NoError THEN Lookup(n, e.env) ELSE @]
        /\ blocked' = [blocked EXCEPT ![n] = "no"]

\* Both messengers' receive_message are the same code.
receive_message(n) ==
    /\ IF parent_task_queue[n] = NoQueue
       THEN \* None.get(): AttributeError
            /\ raised' = [raised EXCEPT ![n] = "AttributeError"]
            /\ UNCHANGED <<task_output_queues, last_message_received, got, inputs, blocked>>
       ELSE IF Len(task_output_queues[parent_task_queue[n]]) = 0
       THEN /\ blocked' = [blocked EXCEPT ![n] = "get"]
            /\ UNCHANGED <<task_output_queues, last_message_received, got, inputs, raised>>
       ELSE Queue_get(n)
    /\ UNCHANGED <<wiring, termination_event, pending, npub, signalled, races>>

\* A get that was waiting for an envelope gets one.
Queue_get_unblock(n) ==
    /\ blocked[n] = "get"
    /\ Len(task_output_queues[parent_task_queue[n]]) > 0
    /\ Queue_get(n)
    /\ UNCHANGED <<wiring, termination_event, pending, npub, signalled, races>>

\* Mutant of signal_flow_termination: the event is cleared instead of set.
signal_flow_termination_clear ==
    /\ termination_event' = FALSE
    /\ signalled' = TRUE
    /\ UNCHANGED <<wiring, task_output_queues, last_message_received, blocked,
                   pending, raised, npub, got, inputs, races>>

\* Mutant of signal_flow_termination: the signal also ends every blocking
\* queue call in progress.
signal_flow_termination_wakes ==
    /\ termination_event' = TRUE
    /\ signalled' = TRUE
    /\ blocked' = [n \in Nodes |-> "no"]
    /\ UNCHANGED <<wiring, task_output_queues, last_message_received,
                   pending, raised, npub, got, inputs, races>>

\* QueueExecutionEnvironment.signal_flow_termination
signal_flow_termination ==
    /\ termination_event' = TRUE
    /\ signalled' = TRUE
    /\ UNCHANGED <<wiring, task_output_queues, last_message_received, blocked,
                   pending, raised, npub, got, inputs, races>>

\* ------------------------------------------- QueueExecutionEnvironment
GPU == "gpu"
CPU == "cpu"
\* A unit made by create_process_task has no accelerator index.
NoGpu == -1

\* Identities given to the entries of a flattened topology, in order.
Ids == <<"A", "B", "C", "D", "E">>

\* The nodes a topology entry may hold: a producer, a consumer, or a processor
\* with its device type and whether change_device(CPU) succeeds on it.
NodeKinds ==
    {[kind |-> "ProducerNode", device_type |-> CPU, can_downgrade |-> TRUE],
     [kind |-> "ConsumerNode", device_type |-> CPU, can_downgrade |-> TRUE],
     [kind |-> "ProcessorNode", device_type |-> CPU, can_downgrade |-> TRUE]}
    \cup {[kind |-> "ProcessorNode", device_type |-> GPU, can_downgrade |-> d] : d \in BOOLEAN}

\* tasks_data for the nodes ns laid out as a chain: (node, node_id,
\* parent_node_id, has_children).
ChainOf(ns) ==
    [i \in 1..Len(ns) |->
        [node |-> ns[i], node_id |-> Ids[i],
         parent_node_id |-> IF i = 1 THEN NoQueue ELSE Ids[i - 1],
         has_children |-> i < Len(ns)]]

At(phase, i) == [phase |-> phase, i |-> i]

\* QueueExecutionEnvironment.__init__
StartupInit ==
    /\ \E len \in 1..MaxTasks : \E ns \in [1..len -> NodeKinds] : tasks_data = ChainOf(ns)
    /\ nb_available_gpus \in 0..MaxGpus
    /\ next_gpu = -1
    /\ queue_keys = {}
    /\ event_made = FALSE
    /\ tasks = << >>
    /\ procs = << >>
    /\ started = 0
    /\ units = << >>
    /\ step = At("queues", 1)
    /\ startup_error = NoError

\* Mutant of CreateOutputQueue: the termination event is never created.
CreateOutputQueue_no_event ==
    /\ step.phase = "queues"
    /\ IF step.i <= Len(tasks_data)
       THEN /\ queue_keys' = queue_keys \cup {tasks_data[step.i].node_id}
            /\ step' = At("queues", step.i + 1)
            /\ UNCHANGED event_made
       ELSE /\ event_made' = event_made
            /\ step' = At("tasks", 1)
            /\ UNCHANGED queue_keys
    /\ UNCHANGED <<tasks_data, nb_available_gpus, next_gpu, tasks, procs, started,
                   startup_error, units>>

\* #0: self._task_output_queues[task_id] = Queue(10), one entry per iteration,
\* then self._termination_event = Event().
CreateOutputQueue ==
    /\ step.phase = "queues"
    /\ IF step.i <= Len(tasks_data)
       THEN /\ queue_keys' = queue_keys \cup {tasks_data[step.i].node_id}
            /\ step' = At("queues", step.i + 1)
            /\ UNCHANGED event_made
       ELSE /\ event_made' = TRUE
            /\ step' = At("tasks", 1)
            /\ UNCHANGED queue_keys
    /\ UNCHANGED <<tasks_data, nb_available_gpus, next_gpu, tasks, procs, started,
                   startup_error, units>>

\* self._task_output_queues.get(key, None)
QueueFor(key) == IF key \in queue_keys THEN key ELSE NoQueue

\* Mutant of MakeTask: the two queues are handed to the messenger swapped.
MakeTask_swapped(data) ==
    [kind |-> CASE data.node.kind = "ProducerNode" -> "ProducerTask"
                [] data.node.kind = "ProcessorNode" -> "ProcessorTask"
                [] data.node.kind = "ConsumerNode" -> "ConsumerTask",
     node_id |-> data.node_id,
     device_type |-> data.node.device_type,
     messenger |-> [class |-> IF flow_type = BATCH THEN "BatchprocessingQueueMessenger"
                                                   ELSE "RealtimeQueueMessenger",
                    task_queue |-> QueueFor(data.parent_node_id),
                    parent_task_queue |-> QueueFor(data.node_id),
                    termination_event |-> event_made]]

\* #1: the messenger and the task of one entry.
MakeTask(data) ==
    [kind |-> CASE data.node.kind = "ProducerNode" -> "ProducerTask"
                [] data.node.kind = "ProcessorNode" -> "ProcessorTask"
                [] data.node.kind = "ConsumerNode" -> "ConsumerTask",
     node_id |-> data.node_id,
     device_type |-> data.node.device_type,
     messenger |-> [class |-> IF flow_type = BATCH THEN "BatchprocessingQueueMessenger"
                                                   ELSE "RealtimeQueueMessenger",
                    task_queue |-> QueueFor(data.node_id),
                    parent_task_queue |-> QueueFor(data.parent_node_id),
                    termination_event |-> event_made]]

InitializeTask ==
    /\ step.phase = "tasks"
    /\ IF step.i <= Len(tasks_data)
       THEN /\ tasks' = Append(tasks, MakeTask(tasks_data[step.i]))
            /\ step' = At("tasks", step.i + 1)
       ELSE /\ step' = At("procs", 1)
            /\ UNCHANGED tasks
    /\ UNCHANGED <<tasks_data, nb_available_gpus, next_gpu, queue_keys, event_made,
                   procs, started, startup_error, units>>

\* create_process_task(task) and create_process_task_gpu(task, gpu_id)
create_process_task(i) == [task |-> i, gpu_id |-> NoGpu]

create_process_task_gpu(i, gpu_id) == [task |-> i, gpu_id |-> gpu_id]

\* Mutant of CreateProcess: the comparison with the number of accelerators is
\* off by one.
CreateProcess_off_by_one ==
    /\ step.phase = "procs"
    /\ IF step.i > Len(tasks)
       THEN /\ step' = At("start", 1)
            /\ UNCHANGED <<next_gpu, tasks, procs, startup_error>>
       ELSE IF tasks[step.i].kind = "ProcessorTask" /\ tasks[step.i].device_type = GPU
       THEN /\ next_gpu' = next_gpu + 1
            /\ IF next_gpu + 1 <= nb_available_gpus
               THEN /\ procs' = Append(procs, create_process_task_gpu(step.i, next_gpu + 1))
                    /\ step' = At("procs", step.i + 1)
                    /\ UNCHANGED <<tasks, startup_error>>
               ELSE IF tasks_data[step.i].node.can_downgrade
               THEN /\ tasks' = [tasks EXCEPT ![step.i].device_type = CPU]
                    /\ procs' = Append(procs, create_process_task(step.i))
                    /\ step' = At("procs", step.i + 1)
                    /\ UNCHANGED startup_error
               ELSE /\ startup_error' = "RuntimeError"
                    /\ step' = At("failed", step.i)
                    /\ UNCHANGED <<tasks, procs>>
       ELSE /\ procs' = Append(procs, create_process_task(step.i))
            /\ step' = At("procs", step.i + 1)
            /\ UNCHANGED <<next_gpu, tasks, startup_error>>
    /\ UNCHANGED <<tasks_data, nb_available_gpus, queue_keys, event_made, started, units>>

\* Mutant of CreateProcess: each unit is started as soon as it is created.
CreateProcess_and_start ==
    /\ step.phase = "procs"
    /\ IF step.i > Len(tasks)
       THEN /\ step' = At("done", 1)
            /\ UNCHANGED <<next_gpu, tasks, procs, startup_error, started>>
       ELSE IF tasks[step.i].kind = "ProcessorTask" /\ tasks[step.i].device_type = GPU
       THEN /\ next_gpu' = next_gpu + 1
            /\ IF next_gpu + 1 < nb_available_gpus
               THEN /\ procs' = Append(procs, create_process_task_gpu(step.i, next_gpu + 1))
                    /\ started' = started + 1
                    /\ step' = At("procs", step.i + 1)
                    /\ UNCHANGED <<tasks, startup_error>>
               ELSE IF tasks_data[step.i].node.can_downgrade
               THEN /\ tasks' = [tasks EXCEPT ![step.i].device_type = CPU]
                    /\ procs' = Append(procs, create_process_task(step.i))
                    /\ started' = started + 1
                    /\ step' = At("procs", step.i + 1)
                    /\ UNCHANGED startup_error
               ELSE /\ startup_error' = "RuntimeError"
                    /\ step' = At("failed", step.i)
                    /\ UNCHANGED <<tasks, procs, started>>
       ELSE /\ procs' = Append(procs, create_process_task(step.i))
            /\ started' = started + 1
            /\ step' = At("procs", step.i + 1)
            /\ UNCHANGED <<next_gpu, tasks, startup_error>>
    /\ UNCHANGED <<tasks_data, nb_available_gpus, queue_keys, event_made, units>>

\* #2: one iteration of "for task in tasks". task.change_device(CPU) raises
\* on a node that refuses the downgrade, and the bare except turns that into
\* RuntimeError, which leaves _al_create_and_start_processes.
CreateProcess ==
    /\ step.phase = "procs"
    /\ IF step.i > Len(tasks)
       THEN /\ step' = At("start", 1)
            /\ UNCHANGED <<next_gpu, tasks, procs, startup_error>>
       ELSE IF tasks[step.i].kind = "ProcessorTask" /\ tasks[step.i].device_type = GPU
       THEN /\ next_gpu' = next_gpu + 1
            /\ IF next_gpu + 1 < nb_available_gpus
               THEN /\ procs' = Append(procs, create_process_task_gpu(step.i, next_gpu + 1))
                    /\ step' = At("procs", step.i + 1)
                    /\ UNCHANGED <<tasks, startup_error>>
               ELSE IF tasks_data[step.i].node.can_downgrade
               THEN /\ tasks' = [tasks EXCEPT ![step.i].device_type = CPU]
                    /\ procs' = Append(procs, create_process_task(step.i))
                    /\ step' = At("procs", step.i + 1)
                    /\ UNCHANGED startup_error
               ELSE /\ startup_error' = "RuntimeError"
                    /\ step' = At("failed", step.i)
                    /\ UNCHANGED <<tasks, procs>>
       ELSE /\ procs' = Append(procs, create_process_task(step.i))
            /\ step' = At("procs", step.i + 1)
            /\ UNCHANGED <<next_gpu, tasks, startup_error>>
    /\ UNCHANGED <<tasks_data, nb_available_gpus, queue_keys, event_made, started, units>>

\* What the started unit inherits from the process that runs startup.
Inherited == -1

Unit(pc, visible) == [pc |-> pc, visible |-> visible]

\* #3: proc.start(), one unit per iteration.
StartProcess ==
    /\ step.phase = "start"
    /\ IF step.i <= Len(procs)
       THEN /\ started' = started + 1
            /\ units' = Append(units, Unit("started", Inherited))
            /\ step' = At("start", step.i + 1)
       ELSE /\ step' = At("done", 1)
            /\ UNCHANGED <<started, units>>
    /\ UNCHANGED <<tasks_data, nb_available_gpus, next_gpu, queue_keys, event_made,
                   tasks, procs, startup_error>>

startup_frame == <<tasks_data, nb_available_gpus, next_gpu, queue_keys, event_made,
                   tasks, procs, started, step, startup_error>>

\* task_executor_fn in the unit of procs[j]: task.run() begins.
task_executor_fn(j) ==
    /\ units[j].pc = "started"
    /\ procs[j].gpu_id = NoGpu
    /\ units' = [units EXCEPT ![j].pc = "running"]
    /\ UNCHANGED startup_frame

\* Mutant of task_executor_gpu_fn_env: the unit leaves its environment alone.
task_executor_gpu_fn_env_unset(j) ==
    /\ units[j].pc = "started"
    /\ procs[j].gpu_id # NoGpu
    /\ units' = [units EXCEPT ![j].pc = "env"]
    /\ UNCHANGED startup_frame

\* task_executor_gpu_fn in the unit of procs[j]: first
\* os.environ["CUDA_VISIBLE_DEVICES"] = str(gpu_id), ...
task_executor_gpu_fn_env(j) ==
    /\ units[j].pc = "started"
    /\ procs[j].gpu_id # NoGpu
    /\ units' = [units EXCEPT ![j] = Unit("env", procs[j].gpu_id)]
    /\ UNCHANGED startup_frame

\* ... then task.run() begins.
task_executor_gpu_fn_run(j) ==
    /\ units[j].pc = "env"
    /\ units' = [units EXCEPT ![j].pc = "running"]
    /\ UNCHANGED startup_frame

\* The messengers do not run during startup.
StartupNext ==
    \/ CreateOutputQueue /\ UNCHANGED <<messengers, workers>>
    \/ InitializeTask /\ UNCHANGED <<messengers, workers>>
    \/ CreateProcess /\ UNCHANGED <<messengers, workers>>
    \/ StartProcess /\ UNCHANGED <<messengers, workers>>
    \/ \E j \in 1..Len(units) : task_executor_fn(j) /\ UNCHANGED <<messengers, workers>>
    \/ \E j \in 1..Len(units) : task_executor_gpu_fn_env(j) /\ UNCHANGED <<messengers, workers>>
    \/ \E j \in 1..Len(units) : task_executor_gpu_fn_run(j) /\ UNCHANGED <<messengers, workers>>

\* ------------------------------------------------- the messengers, driven
\* Three messengers wired as the chain A -> B -> C; C's node has the logical
\* parents A and B and listens on B's channel. Any unit that is not inside a
\* blocking call and has not died of an exception may call any method.
\* The payloads are opaque to the code, so each call publishes a fresh one:
\* the number of the call.
Ready(n) == blocked[n] = "no" /\ raised[n] = NoError

Payload(n) == npub[n] + 1

\* The runs explored: A driven past a full channel while B drains a little;
\* B driven past a full channel after one envelope from A, passing through
\* once, C draining once;
\* and at most MaxCalls calls in all, of every kind and by every node.
Only(m, k) == [n \in Nodes |-> IF n = m THEN k ELSE 0]

Profiles ==
    { [pub   |-> Only("A", MaxBurst),
       recv  |-> Only("B", MaxRecv),
       pass  |-> Only("A", 0),
       term  |-> Only("A", 0),
       total |-> MaxBurst + MaxRecv],
      [pub   |-> [n \in Nodes |-> CASE n = "A" -> 1 [] n = "B" -> MaxBurst [] n = "C" -> 0],
       recv  |-> [n \in Nodes |-> CASE n = "A" -> 0 [] n = "B" -> 1 [] n = "C" -> 1],
       pass  |-> Only("B", 1),
       term  |-> Only("B", 0),
       total |-> MaxBurst + 4],
      [pub   |-> [n \in Nodes |-> MaxFew],
       recv  |-> [n \in Nodes |-> MaxRecv],
       pass  |-> [n \in Nodes |-> MaxOther],
       term  |-> [n \in Nodes |-> MaxOther],
       total |-> MaxCalls] }

Wired(parents_of_C) ==
    /\ parent_task_queue = [n \in Nodes |-> CASE n = "A" -> NoQueue
                                              [] n = "B" -> "A"
                                              [] n = "C" -> "B"]
    /\ parent_nodes_ids = [n \in Nodes |-> CASE n = "A" -> << >>
                                             [] n = "B" -> <<"A">>
                                             [] n = "C" -> parents_of_C]

Constructed ==
    /\ task_output_queues = [n \in Nodes |-> << >>]
    /\ last_message_received = [n \in Nodes |-> None]
    /\ termination_event = FALSE
    /\ blocked = [n \in Nodes |-> "no"]
    /\ pending = [n \in Nodes |-> << >>]
    /\ raised = [n \in Nodes |-> NoError]
    /\ npub = [n \in Nodes |-> 0]
    /\ got = [n \in Nodes |-> << >>]
    /\ inputs = [n \in Nodes |-> << >>]
    /\ signalled = FALSE
    /\ races = 0
    /\ recorded = << >>
    /\ blocked_at_signal = [n \in Nodes |-> "no"]
    /\ exited = {}
    /\ join = [pc |-> "idle", i |-> 0]
    /\ interrupts = 0
    /\ unit_pc = [n \in Nodes |-> "run"]

\* The execution environment once it has started the three units of the chain.
ChainStarted ==
    /\ tasks_data = ChainOf(<<[kind |-> "ProducerNode", device_type |-> CPU, can_downgrade |-> TRUE],
                              [kind |-> "ProcessorNode", device_type |-> CPU, can_downgrade |-> TRUE],
                              [kind |-> "ConsumerNode", device_type |-> CPU, can_downgrade |-> TRUE]>>)
    /\ nb_available_gpus = 0
    /\ next_gpu = -1
    /\ queue_keys = Nodes
    /\ event_made = TRUE
    /\ tasks = [i \in 1..3 |-> MakeTask(tasks_data[i])]
    /\ procs = [i \in 1..3 |-> create_process_task(i)]
    /\ started = 3
    /\ units = [i \in 1..3 |-> Unit("running", Inherited)]
    /\ step = At("done", 1)
    /\ startup_error = NoError

Init ==
    /\ flow_type \in {BATCH, REALTIME}
    /\ Wired(<<"A", "B">>)
    /\ Constructed
    /\ budget \in Profiles
    /\ ChainStarted

Spend(kind, n) ==
    /\ budget[kind][n] > 0
    /\ budget.total > 0
    /\ budget' = [budget EXCEPT ![kind][n] = @ - 1, !.total = @ - 1]
    /\ UNCHANGED <<startup, workers>>

PublishMessage(n) ==
    Ready(n) /\ Spend("pub", n) /\ publish_message(n, Payload(n))

PublishTerminationMessage(n) ==
    Ready(n) /\ Spend("term", n) /\ publish_termination_message(n, Payload(n))

PassthroughMessage(n) ==
    Ready(n) /\ Spend("pass", n) /\ passthrough_message(n)

PassthroughTerminationMessage(n) ==
    Ready(n) /\ Spend("term", n) /\ passthrough_termination_message(n)

ReceiveMessage(n) ==
    Ready(n) /\ Spend("recv", n) /\ receive_message(n)

PutUnblocks(n) == Queue_put_unblock(n) /\ UNCHANGED <<budget, startup, workers>>

GetUnblocks(n) == Queue_get_unblock(n) /\ UNCHANGED <<budget, startup, workers>>

SignalFlowTermination ==
    /\ signal_flow_termination
    /\ blocked_at_signal' = IF signalled THEN blocked_at_signal ELSE blocked
    /\ UNCHANGED <<budget, startup, recorded, shutdown>>

Next ==
    \/ \E n \in Nodes : PublishMessage(n)
    \/ \E n \in Nodes : PublishTerminationMessage(n)
    \/ \E n \in Nodes : PassthroughMessage(n)
    \/ \E n \in Nodes : PassthroughTerminationMessage(n)
    \/ \E n \in Nodes : ReceiveMessage(n)
    \/ \E n \in Nodes : PutUnblocks(n)
    \/ \E n \in Nodes : GetUnblocks(n)
    \/ SignalFlowTermination

Spec == Init /\ [][Next]_vars

\* ------------------------------------------- the messengers, kept running
\* The same chain with C's node a child of A alone, driven the way units
\* drive their messengers: a source only publishes, a unit with an inbound
\* channel sends only once it holds a received envelope, and every such unit
\* calls receive_message again and again. Sends are bounded, receives are not;
\* a unit sends its termination message once.
LiveProfiles ==
    { [pub   |-> Only("A", MaxBurst),
       pass  |-> Only("A", 0),
       term  |-> Only("A", 1),
       total |-> MaxBurst + 1],
      [pub   |-> Only("A", 1),
       pass  |-> Only("B", MaxBurst),
       term  |-> Only("B", 1),
       total |-> MaxBurst + 2] }

LiveInit ==
    /\ flow_type \in {BATCH, REALTIME}
    /\ Wired(<<"A">>)
    /\ Constructed
    /\ budget \in LiveProfiles
    /\ ChainStarted

IsSource(n) == parent_task_queue[n] = NoQueue

Relays(n) == IsSource(n) \/ last_message_received[n] # None

UnitPublishes(n) == Relays(n) /\ PublishMessage(n)

UnitPublishesTermination(n) == Relays(n) /\ PublishTerminationMessage(n)

UnitPassesThrough(n) == ~IsSource(n) /\ Relays(n) /\ PassthroughMessage(n)

UnitPassesTerminationThrough(n) ==
    ~IsSource(n) /\ Relays(n) /\ PassthroughTerminationMessage(n)

UnitReceives(n) ==
    ~IsSource(n) /\ Ready(n) /\ receive_message(n) /\ UNCHANGED <<budget, startup, workers>>

LiveNext ==
    \/ \E n \in Nodes : UnitPublishes(n)
    \/ \E n \in Nodes : UnitPublishesTermination(n)
    \/ \E n \in Nodes : UnitPassesThrough(n)
    \/ \E n \in Nodes : UnitPassesTerminationThrough(n)
    \/ \E n \in Nodes : UnitReceives(n)
    \/ \E n \in Nodes : PutUnblocks(n)
    \/ \E n \in Nodes : GetUnblocks(n)

\* A blocking call returns once the queue lets it, and a reading unit comes
\* back to receive_message.
LiveSpec ==
    /\ LiveInit
    /\ [][LiveNext]_vars
    /\ \A n \in Nodes : WF_vars(PutUnblocks(n))
    /\ \A n \in Nodes : WF_vars(GetUnblocks(n))
    /\ \A n \in Nodes : WF_vars(UnitReceives(n))

\* A budget under which the driver makes no call.
Idle == [pub |-> Only("A", 0), recv |-> Only("A", 0), pass |-> Only("A", 0),
         term |-> Only("A", 0), total |-> 0]

\* --------------------------------------------------------------- startup
\* _al_create_and_start_processes alone, on every chain of at most MaxTasks
\* nodes and every number of accelerators up to MaxGpus; the messengers it
\* builds are not yet driven.
StartupSpecInit ==
    /\ flow_type \in {BATCH, REALTIME}
    /\ Wired(<<"A">>)
    /\ Constructed
    /\ budget = Idle
    /\ StartupInit

StartupSpec == StartupSpecInit /\ [][StartupNext]_vars

\* -------------------------------------------------------------- pipeline
\* The chain S = "A" -> T = "B" -> K = "C" run by its three tasks under the
\* lossless policy: S publishes Values once each, T publishes twice what it
\* received, K records what it receives. Each task is a process of its own.
Values == <<1, 2, 3, 4, 5>>

Doubled == [i \in 1..Len(Values) |-> 2 * Values[i]]

PipelineInit ==
    /\ flow_type = BATCH
    /\ Wired(<<"B">>)
    /\ Constructed
    /\ budget = Idle
    /\ ChainStarted

\* ProducerTask: the next value of the source goes out.
ProducerTask_step ==
    /\ Ready("A")
    /\ npub["A"] < Len(Values)
    /\ publish_message("A", Values[npub["A"] + 1])
    /\ UNCHANGED <<budget, startup, workers>>

\* ProcessorTask: receive, then publish the result computed from the inputs.
ProcessorTask_receive ==
    /\ Ready("B")
    /\ Len(got["A"]) = npub["B"]
    /\ receive_message("B")
    /\ UNCHANGED <<budget, startup, workers>>

ProcessorTask_publish ==
    /\ Ready("B")
    /\ Len(got["A"]) > npub["B"]
    /\ publish_message("B", 2 * inputs["B"][1])
    /\ UNCHANGED <<budget, startup, workers>>

\* ConsumerTask: receive and consume; a sink without children sends nothing.
ConsumerTask_step ==
    /\ Ready("C")
    /\ receive_message("C")
    /\ recorded' = IF blocked'["C"] = "get" THEN recorded
                   ELSE Append(recorded, inputs'["C"][1])
    /\ UNCHANGED <<budget, startup, shutdown, blocked_at_signal>>

\* A task waiting in receive_message gets its envelope.
ProcessorTask_wakes ==
    /\ Queue_get_unblock("B")
    /\ UNCHANGED <<budget, startup, workers>>

ConsumerTask_wakes ==
    /\ Queue_get_unblock("C")
    /\ recorded' = Append(recorded, inputs'["C"][1])
    /\ UNCHANGED <<budget, startup, shutdown, blocked_at_signal>>

PipelineNext ==
    \/ ProducerTask_step
    \/ ProcessorTask_receive
    \/ ProcessorTask_publish
    \/ ConsumerTask_step
    \/ ProcessorTask_wakes
    \/ ConsumerTask_wakes

\* Every task is an operating-system process, so none is starved.
PipelineSpec ==
    /\ PipelineInit
    /\ [][PipelineNext]_vars
    /\ WF_vars(ProducerTask_step)
    /\ WF_vars(ProcessorTask_receive)
    /\ WF_vars(ProcessorTask_publish)
    /\ WF_vars(ConsumerTask_step)
    /\ WF_vars(ProcessorTask_wakes)
    /\ WF_vars(ConsumerTask_wakes)

\* ------------------------------------------------------------------ join
\* A unit's process ends (its run returned or raised).
ProcessExits(i) ==
    /\ i \notin exited
    /\ exited' = exited \cup {i}
    /\ UNCHANGED <<join, interrupts, unit_pc>>

\* "for proc in self._procs": the wait on the next unit, or the return.
JoinAt(i) == IF i <= Len(procs) THEN [pc |-> "join", i |-> i]
             ELSE [pc |-> "returned", i |-> i]

\* The caller enters join_task_processes.
join_task_processes ==
    /\ join.pc = "idle"
    /\ join' = JoinAt(1)
    /\ UNCHANGED <<exited, interrupts, unit_pc>>

\* proc.join() returns, in the try block or in the handler: the unit has ended.
Process_join_returns ==
    /\ join.pc \in {"join", "retry"}
    /\ join.i \in exited
    /\ join' = JoinAt(join.i + 1)
    /\ UNCHANGED <<exited, interrupts, unit_pc>>

\* A KeyboardInterrupt reaches the caller while it waits in proc.join(). In
\* the try block the handler catches it and calls proc.join() again; in the
\* handler nothing catches it and it leaves join_task_processes.
KeyboardInterrupt ==
    /\ join.pc \in {"join", "retry"}
    /\ interrupts < MaxInterrupts
    /\ interrupts' = interrupts + 1
    /\ join' = IF join.pc = "join" THEN [join EXCEPT !.pc = "retry"]
               ELSE [join EXCEPT !.pc = "KeyboardInterrupt"]
    /\ UNCHANGED <<exited, unit_pc>>

JoinInit ==
    /\ flow_type \in {BATCH, REALTIME}
    /\ Wired(<<"B">>)
    /\ Constructed
    /\ budget = Idle
    /\ ChainStarted

JoinNext ==
    \/ \E i \in 1..Len(procs) : ProcessExits(i) /\ UNCHANGED <<messengers, startup, recorded, blocked_at_signal>>
    \/ join_task_processes /\ UNCHANGED <<messengers, startup, recorded, blocked_at_signal>>
    \/ Process_join_returns /\ UNCHANGED <<messengers, startup, recorded, blocked_at_signal>>
    \/ KeyboardInterrupt /\ UNCHANGED <<messengers, startup, recorded, blocked_at_signal>>

JoinSpec == JoinInit /\ [][JoinNext]_vars

\* -------------------------------------------------------------- shutdown
\* The chain S = "A" -> T = "B" -> K = "C" run by its three tasks under either
\* policy until signal_flow_termination(), then joined. Each unit runs the
\* loop receive, compute, publish and looks at the termination event between
\* iterations; on leaving the loop a unit with children sends a termination
\* message downstream. The source has at most MaxBurst values to publish.
UnitOf(n) == CASE n = "A" -> 1 [] n = "B" -> 2 [] n = "C" -> 3

loop_frame == <<budget, startup, recorded, join, interrupts, blocked_at_signal>>

Exits(n) ==
    /\ unit_pc' = [unit_pc EXCEPT ![n] = "exited"]
    /\ exited' = exited \cup {UnitOf(n)}

\* ProducerTask: one iteration, or the way out.
ProducerTask_loop ==
    /\ unit_pc["A"] = "run"
    /\ Ready("A")
    /\ IF check_for_termination("A")
       THEN /\ publish_termination_message("A", Payload("A"))
            /\ unit_pc' = [unit_pc EXCEPT !["A"] = "leaving"]
       ELSE /\ npub["A"] < MaxBurst
            /\ publish_message("A", Payload("A"))
            /\ UNCHANGED unit_pc
    /\ UNCHANGED <<exited, loop_frame>>

\* ProcessorTask: the receive of an iteration, or the way out.
ProcessorTask_loop ==
    /\ unit_pc["B"] = "run"
    /\ Ready("B")
    /\ IF check_for_termination("B")
       THEN /\ passthrough_termination_message("B")
            /\ unit_pc' = [unit_pc EXCEPT !["B"] = "leaving"]
       ELSE /\ receive_message("B")
            /\ unit_pc' = [unit_pc EXCEPT !["B"] = "received"]
    /\ UNCHANGED <<exited, loop_frame>>

\* ProcessorTask: the result of the iteration goes out.
ProcessorTask_sends ==
    /\ unit_pc["B"] = "received"
    /\ Ready("B")
    /\ publish_message("B", Payload("B"))
    /\ unit_pc' = [unit_pc EXCEPT !["B"] = "run"]
    /\ UNCHANGED <<exited, loop_frame>>

\* ConsumerTask without children: the receive of an iteration, or the way out.
ConsumerTask_loop ==
    /\ unit_pc["C"] = "run"
    /\ Ready("C")
    /\ IF check_for_termination("C")
       THEN /\ Exits("C")
            /\ UNCHANGED messengers
       ELSE /\ receive_message("C")
            /\ unit_pc' = [unit_pc EXCEPT !["C"] = "received"]
            /\ UNCHANGED <<budget, exited>>
    /\ UNCHANGED <<startup, recorded, join, interrupts, blocked_at_signal>>

\* ConsumerTask: the inputs are consumed.
ConsumerTask_consumes ==
    /\ unit_pc["C"] = "received"
    /\ Ready("C")
    /\ unit_pc' = [unit_pc EXCEPT !["C"] = "run"]
    /\ UNCHANGED <<messengers, exited, startup, recorded, join, interrupts, blocked_at_signal>>

\* A unit that has sent its termination message returns from run.
TaskReturns(n) ==
    /\ unit_pc[n] = "leaving"
    /\ Ready(n)
    /\ Exits(n)
    /\ UNCHANGED <<messengers, startup, recorded, join, interrupts, blocked_at_signal>>

\* A unit whose task raised ends with the exception.
TaskRaises(n) ==
    /\ unit_pc[n] # "exited"
    /\ raised[n] # NoError
    /\ Exits(n)
    /\ UNCHANGED <<messengers, startup, recorded, join, interrupts, blocked_at_signal>>

\* The caller joins once it has signalled.
CallerJoins ==
    /\ signalled
    /\ join_task_processes
    /\ UNCHANGED <<messengers, startup, recorded, blocked_at_signal>>

CallerJoinReturns ==
    /\ Process_join_returns
    /\ UNCHANGED <<messengers, startup, recorded, blocked_at_signal>>

ShutdownInit ==
    /\ flow_type \in {BATCH, REALTIME}
    /\ Wired(<<"B">>)
    /\ Constructed
    /\ budget = Idle
    /\ ChainStarted

ShutdownNext ==
    \/ ProducerTask_loop
    \/ ProcessorTask_loop
    \/ ProcessorTask_sends
    \/ ConsumerTask_loop
    \/ ConsumerTask_consumes
    \/ \E n \in Nodes : TaskReturns(n)
    \/ \E n \in Nodes : TaskRaises(n)
    \/ \E n \in Nodes : PutUnblocks(n)
    \/ \E n \in Nodes : GetUnblocks(n)
    \/ SignalFlowTermination
    \/ CallerJoins
    \/ CallerJoinReturns

\* Every unit is an operating-system process and the caller is one too: each
\* of their steps is taken if it stays possible.
ShutdownSpec ==
    /\ ShutdownInit
    /\ [][ShutdownNext]_vars
    /\ WF_vars(ProducerTask_loop)
    /\ WF_vars(ProcessorTask_loop)
    /\ WF_vars(ProcessorTask_sends)
    /\ WF_vars(ConsumerTask_loop)
    /\ WF_vars(ConsumerTask_consumes)
    /\ \A n \in Nodes : WF_vars(TaskReturns(n))
    /\ \A n \in Nodes : WF_vars(TaskRaises(n))
    /\ \A n \in Nodes : WF_vars(PutUnblocks(n))
    /\ \A n \in Nodes : WF_vars(GetUnblocks(n))
    /\ WF_vars(CallerJoins)
    /\ WF_vars(CallerJoinReturns)

\* ------------------------------------------------------------- properties
\* The send-call numbers of the envelopes a channel has delivered, followed
\* by those it still holds, followed by the one its writer is blocked on.
Trail(n) ==
    [i \in 1..Len(got[n]) |-> got[n][i].id]
        \o [i \in 1..Len(task_output_queues[n]) |-> task_output_queues[n][i].tag.id]
        \o [i \in 1..Len(pending[n]) |-> pending[n][i].tag.id]

Increasing(seq) == \A i, j \in 1..Len(seq) : i < j => seq[i] < seq[j]

Delivered(n, k) == \E i \in 1..Len(got[n]) : got[n][i].id = k

C2_FifoPerChannel ==
    \A n \in Nodes : Increasing(Trail(n)) /\ (Len(Trail(n)) > 0 => Trail(n)[Len(Trail(n))] <= npub[n])

\* C2 witness: under the lossy policy a channel has dropped a call and has
\* delivered two envelopes.
C2_Witness ==
    /\ flow_type = REALTIME
    /\ Len(got["A"]) >= 2
    /\ Len(Trail("A")) < npub["A"]

C4_LossySendLeavesFullChannel ==
    [][\A n \in Nodes :
        (flow_type = REALTIME /\ (PublishMessage(n) \/ PassthroughMessage(n)))
            => /\ blocked'[n] = "no"
               /\ raised'[n] = NoError
               /\ IF Full(n)
                  THEN task_output_queues'[n] = task_output_queues[n]
                  ELSE /\ Len(task_output_queues'[n]) = Len(task_output_queues[n]) + 1
                       /\ task_output_queues'[n][Len(task_output_queues'[n])].tag.id = npub'[n]]_vars

C6_TerminationMonotone ==
    \A n \in Nodes : check_for_termination(n) = signalled

\* C6 witness: the signal is set in a run where messengers have sent,
\* received and blocked.
C6_Witness ==
    /\ signalled
    /\ check_for_termination("C")
    /\ Len(got["B"]) > 0
    /\ blocked["B"] = "put"

PublishedAfterReceive(tag) == tag.by = "publish" /\ tag.src # 0

\* C7: an envelope B enqueues by publish_message after receiving A's envelope
\* holds A's entry with the value A published (A publishes the number of its
\* call) and an entry of B with a value B published; and C, whose first parent
\* identity is A, gets A's value from receive_message.
C7_EnvelopeAccumulation ==
    /\ \A e \in {task_output_queues["B"][i] : i \in 1..Len(task_output_queues["B"])}
                \cup {pending["B"][i] : i \in 1..Len(pending["B"])} :
            PublishedAfterReceive(e.tag)
                => /\ {"A", "B"} \subseteq DOMAIN e.env
                   /\ e.env["A"] = e.tag.src
                   /\ e.env["B"] \in e.tag.id..npub["B"]
    /\ (Len(got["B"]) > 0 /\ PublishedAfterReceive(got["B"][Len(got["B"])]))
            => /\ raised["C"] = NoError
               /\ inputs["C"][1] = got["B"][Len(got["B"])].src

\* C7 witness: C has received an envelope that B published after receiving
\* A's envelope.
C7_Witness ==
    /\ Len(got["B"]) > 0
    /\ PublishedAfterReceive(got["B"][Len(got["B"])])
    /\ got["B"][Len(got["B"])].src = 1
    /\ inputs["C"][1] = 1
    /\ last_message_received["C"]["B"] > 0

\* C8: with G accelerators, the k-th transform task that requests one, in
\* topology order and counting from 0, gets a unit bound to accelerator k when
\* k < G, and otherwise a plain unit after its device was changed to CPU.
Requests(i) ==
    tasks_data[i].node.kind = "ProcessorNode" /\ tasks_data[i].node.device_type = GPU

Rank(i) == Cardinality({j \in 1..(i - 1) : Requests(j)})

C8_AcceleratorAssignment ==
    /\ started <= Len(procs)
    /\ \A j \in 1..Len(procs) :
          /\ procs[j].task = j
          /\ IF Requests(j) /\ Rank(j) < nb_available_gpus
             THEN procs[j].gpu_id = Rank(j) /\ tasks[j].device_type = GPU
             ELSE procs[j].gpu_id = NoGpu /\ tasks[j].device_type = CPU

C8_Witness ==
    /\ nb_available_gpus = 2
    /\ Len(tasks_data) = 3
    /\ \A i \in 1..3 : Requests(i)
    /\ started = 3
    /\ procs = <<create_process_task_gpu(1, 0), create_process_task_gpu(2, 1),
                 create_process_task(3)>>
    /\ tasks[3].device_type = CPU

\* C9: when a transform task that requests an accelerator finds none left and
\* refuses the change to CPU, startup ends in RuntimeError with no unit
\* started, wherever that task stands in the topology; a topology holding such
\* a task never has a unit started.
Stranded(i) ==
    /\ Requests(i)
    /\ Rank(i) >= nb_available_gpus
    /\ ~tasks_data[i].node.can_downgrade

C9_FailedStartupStartsNothing ==
    /\ (startup_error = "RuntimeError") = (step.phase = "failed")
    /\ step.phase = "failed" => Stranded(step.i) /\ started = 0
    /\ (\E i \in 1..Len(tasks_data) : Stranded(i)) =>
          /\ started = 0
          /\ step.phase \in {"queues", "tasks", "procs", "failed"}
          /\ step.phase = "procs" => \A i \in 1..(step.i - 1) : ~Stranded(i)

C9_Witness ==
    /\ step = At("failed", 3)
    /\ startup_error = "RuntimeError"
    /\ Len(procs) = 2
    /\ started = 0

\* C10: in the chain S -> T -> K under the lossless policy, with S publishing
\* 1, 2, 3, 4, 5 and T publishing twice its input, what K has obtained from
\* receive_message is always a prefix of 2, 4, 6, 8, 10 and eventually all of
\* it, whatever the interleaving of the three tasks.
C10_EndToEnd ==
    /\ [](Len(recorded) <= Len(Doubled) /\ recorded = SubSeq(Doubled, 1, Len(recorded)))
    /\ <>[](recorded = <<2, 4, 6, 8, 10>>)

C10_Witness == recorded = <<2, 4, 6, 8, 10>> /\ blocked["C"] = "get"

\* C11: join_task_processes never lets a KeyboardInterrupt out to its caller,
\* however many arrive and on whichever unit, and it returns only once every
\* unit has exited.
C11_JoinAbsorbsInterrupts ==
    /\ join.pc # "KeyboardInterrupt"
    /\ join.pc = "returned" => exited = 1..Len(procs)

\* C12: once any unit has been started, every node of the topology has its
\* channel and the termination event exists, every task has been built with
\* its messenger bound to those channels and to the event, and every task has
\* its unit.
C12_StartAfterAllCreated ==
    started > 0 =>
        /\ queue_keys = {tasks_data[i].node_id : i \in 1..Len(tasks_data)}
        /\ event_made
        /\ Len(tasks) = Len(tasks_data)
        /\ \A i \in 1..Len(tasks) :
              /\ tasks[i].messenger.task_queue = tasks_data[i].node_id
              /\ tasks[i].messenger.parent_task_queue = tasks_data[i].parent_node_id
              /\ tasks[i].messenger.termination_event
        /\ Len(procs) = Len(tasks)
        /\ \A j \in 1..Len(procs) : procs[j].task = j

C12_Witness ==
    /\ Len(tasks_data) = 3
    /\ step.phase = "start"
    /\ started = 1
    /\ Len(procs) = 3

\* C13: a receive_message that gets an envelope removes the head of the
\* messenger's inbound channel and nothing else, records it as the last
\* received envelope, and, the envelope holding an entry for each parent
\* identity, returns those entries' values in the order of the parent list;
\* the envelopes of the outbound channel, the other channels and the
\* termination event stay as they were. (An envelope lacking a parent's entry
\* is taken and recorded all the same, and the call raises.)
Envelopes(q) == [i \in 1..Len(q) |-> [env |-> q[i].env, tag |-> q[i].tag]]

Received(n) ==
    /\ parent_task_queue[n] # NoQueue
    /\ Len(got'[parent_task_queue[n]]) = Len(got[parent_task_queue[n]]) + 1

HoldsParents(n, env) ==
    /\ env # None
    /\ \A i \in 1..Len(parent_nodes_ids[n]) : parent_nodes_ids[n][i] \in DOMAIN env

C13_ReceiveMessage ==
    [][\A n \in Nodes : Received(n) =>
          LET p == parent_task_queue[n]
              q == task_output_queues[p]
          IN  /\ Len(q) > 0
              /\ Envelopes(task_output_queues'[p]) = Envelopes(Tail(q))
              /\ got'[p] = Append(got[p], Head(q).tag)
              /\ last_message_received'[n] = Head(q).env
              /\ IF HoldsParents(n, Head(q).env)
                 THEN /\ raised'[n] = NoError
                      /\ Len(inputs'[n]) = Len(parent_nodes_ids[n])
                      /\ \A i \in 1..Len(parent_nodes_ids[n]) :
                            inputs'[n][i] = Head(q).env[parent_nodes_ids[n][i]]
                 ELSE raised'[n] # NoError /\ inputs'[n] = inputs[n]
              /\ \A m \in Nodes \ {p} :
                    Envelopes(task_output_queues'[m]) = Envelopes(task_output_queues[m])
              /\ termination_event' = termination_event
              /\ \A m \in Nodes \ {n} : last_message_received'[m] = last_message_received[m]
      ]_vars

\* C13 witness: C, whose parents are A then B, has received an envelope
\* holding different values for the two and was returned A's value first.
C13_Witness ==
    /\ Len(got["B"]) > 0
    /\ HoldsParents("C", last_message_received["C"])
    /\ last_message_received["C"]["A"] # last_message_received["C"]["B"]
    /\ inputs["C"] = <<last_message_received["C"]["A"], last_message_received["C"]["B"]>>
    /\ Len(task_output_queues["B"]) > 0

\* C14, as claimed: every envelope on a node's channel, whichever of the four
\* send methods placed it, is a mapping holding the sending node's entry and,
\* when the sender had received from its parent, the parent's entry.
C14_EveryEnvelopeHoldsSenderAndAncestors ==
    \A n \in Nodes : \A i \in 1..Len(task_output_queues[n]) :
        LET e == task_output_queues[n][i]
        IN  /\ e.env # None
            /\ n \in DOMAIN e.env
            /\ e.tag.src > 0 => parent_task_queue[n] \in DOMAIN e.env

\* C14, amended: an envelope placed by publish_message or
\* publish_termination_message is a mapping holding the sender's entry and
\* every entry of the envelope the sender last received, with their values;
\* an envelope placed by passthrough_message or
\* passthrough_termination_message is the sender's last received envelope as
\* it is (without an entry of the sender's unless it published before, and
\* None when the sender has received nothing).
Placed(n) == Len(task_output_queues'[n]) = Len(task_output_queues[n]) + 1

C14_PublishedEnvelopeAccumulates ==
    [][\A n \in Nodes : Placed(n) =>
          LET e == task_output_queues'[n][Len(task_output_queues'[n])]
              last == last_message_received[n]
          IN  IF e.tag.by \in {"publish", "publish_termination"}
              THEN /\ e.env # None
                   /\ n \in DOMAIN e.env
                   /\ last # None =>
                         \A k \in DOMAIN last :
                             k \in DOMAIN e.env /\ (k # n => e.env[k] = last[k])
              ELSE e.env = last
      ]_vars

\* C14 witness: B's channel holds an envelope B passed through, with A's
\* entry and none of B's, and after it one B published, with A's entry and B's.
C14_Witness ==
    \E i, j \in 1..Len(task_output_queues["B"]) :
        /\ i < j
        /\ task_output_queues["B"][i].tag.by \in {"passthrough", "passthrough_termination"}
        /\ DOMAIN task_output_queues["B"][i].env = {"A"}
        /\ task_output_queues["B"][j].tag.by = "publish"
        /\ DOMAIN task_output_queues["B"][j].env = {"A", "B"}

\* C15: the messenger built for node n is bound to n's channel for writing
\* and to the channel of n's configured parent (or to none) for reading; an
\* envelope is added to channel m only by a send of m's own messenger, and an
\* envelope is removed from channel p only by a messenger whose parent is p.
SendsOn(m) ==
    /\ \/ npub'[m] = npub[m] + 1
       \/ blocked[m] = "put" /\ blocked'[m] = "no"
    /\ \A k \in Nodes \ {m} : npub'[k] = npub[k] /\ blocked'[k] = blocked[k]

ReadsFrom(n, p) ==
    /\ parent_task_queue[n] = p
    /\ blocked'[n] = "no"
    /\ last_message_received'[n] = Head(task_output_queues[p]).env
    /\ \A k \in Nodes \ {n} :
          /\ last_message_received'[k] = last_message_received[k]
          /\ inputs'[k] = inputs[k]
          /\ blocked'[k] = blocked[k]

C15_SingleWriterPerChannel ==
    [][/\ \A i \in 1..Len(tasks) :
             /\ tasks[i].messenger.task_queue = tasks[i].node_id
             /\ tasks[i].messenger.parent_task_queue = parent_task_queue[tasks[i].node_id]
             /\ \A j \in 1..Len(tasks) :
                   tasks[j].messenger.task_queue = tasks[i].messenger.task_queue => j = i
        /\ \A m \in Nodes :
             /\ Len(task_output_queues'[m]) > Len(task_output_queues[m]) => SendsOn(m)
             /\ Envelopes(task_output_queues'[m]) # Envelopes(task_output_queues[m]) =>
                   \/ SendsOn(m)
                   \/ \E n \in Nodes : ReadsFrom(n, m)
             /\ got'[m] # got[m] => \E n \in Nodes : ReadsFrom(n, m)
      ]_vars

\* C15 witness: A's channel and B's have been written, and B and C have each
\* read from their parent's.
C15_Witness ==
    /\ Len(got["A"]) > 0
    /\ Len(got["B"]) > 0
    /\ last_message_received["C"] # None

\* C16: no channel ever holds more than 10 envelopes, under either policy,
\* also when a termination message is sent into a full channel.
C16_ChannelCapacity ==
    \A n \in Nodes : Len(task_output_queues[n]) <= QueueMaxsize

\* C16 witness: under the lossy policy a termination message waits on a
\* channel that holds 10 envelopes.
C16_Witness ==
    \E n \in Nodes :
        /\ flow_type = REALTIME
        /\ Len(task_output_queues[n]) = QueueMaxsize
        /\ blocked[n] = "put"
        /\ Len(pending[n]) = 1
        /\ pending[n][1].tag.by \in {"publish_termination", "passthrough_termination"}

\* C17: every index handed to a unit is one of 0..G-1, no two units of a run
\* are handed the same index, and a unit that was handed an index has its
\* CUDA_VISIBLE_DEVICES set to exactly that index by the time its task runs.
C17_AcceleratorExclusivity ==
    /\ \A j \in 1..Len(procs) : procs[j].gpu_id # NoGpu =>
          /\ procs[j].gpu_id \in 0..(nb_available_gpus - 1)
          /\ \A k \in 1..Len(procs) : procs[k].gpu_id = procs[j].gpu_id => k = j
    /\ \A j \in 1..Len(units) :
          procs[j].gpu_id # NoGpu /\ units[j].pc = "running" =>
              units[j].visible = procs[j].gpu_id

\* C17 witness: two accelerated units run at once, one seeing device 0 and
\* the other device 1.
C17_Witness ==
    \E j, k \in 1..Len(units) :
        /\ units[j] = Unit("running", 0)
        /\ units[k] = Unit("running", 1)

\* C18: signal_flow_termination() changes no messenger's blocking call and no
\* channel; a receive_message blocked on an empty channel stays blocked until
\* the channel holds an envelope, which it then takes, and a blocking send on
\* a full channel stays blocked until the channel has room, into which its
\* envelope then goes.
C18_SignalDoesNotUnblock ==
    [][/\ termination_event' # termination_event =>
             /\ blocked' = blocked
             /\ task_output_queues' = task_output_queues
             /\ pending' = pending
       /\ \A n \in Nodes :
             /\ blocked[n] = "get" /\ blocked'[n] # "get" =>
                   LET p == parent_task_queue[n]
                   IN  /\ Len(task_output_queues[p]) > 0
                       /\ got'[p] = Append(got[p], Head(task_output_queues[p]).tag)
             /\ blocked[n] = "put" /\ blocked'[n] # "put" =>
                   /\ Len(task_output_queues[n]) < QueueMaxsize
                   /\ task_output_queues'[n] = Append(task_output_queues[n], pending[n][1])
      ]_vars

\* C18 witness: the signal was given while a unit was blocked in a send on a
\* full channel, and the unit is blocked still, the channel still full.
C18_Witness ==
    /\ signalled
    /\ termination_event
    /\ \E n \in Nodes :
          /\ blocked_at_signal[n] = "put"
          /\ blocked[n] = "put"
          /\ Full(n)

\* C19: under the lossy policy a value whose publish_message was discarded
\* appears in no envelope the messenger enqueues afterwards: the sender's own
\* entry in an envelope placed by passthrough_message or
\* passthrough_termination_message is a value that one of its publish calls
\* did enqueue.
EnqueuedTags(n) ==
    {got[n][i] : i \in 1..Len(got[n])}
        \cup {task_output_queues[n][i].tag : i \in 1..Len(task_output_queues[n])}

C19_DiscardedValueNeverResent ==
    flow_type = REALTIME =>
        \A n \in Nodes : \A i \in 1..Len(task_output_queues[n]) :
            LET e == task_output_queues[n][i]
            IN  (/\ e.tag.by \in {"passthrough", "passthrough_termination"}
                 /\ e.env # None
                 /\ n \in DOMAIN e.env)
                    => \E t \in EnqueuedTags(n) :
                           t.by \in {"publish", "publish_termination"} /\ t.id = e.env[n]

\* C20: in the chain source -> transform -> sink, under either policy and
\* whatever the channels hold when signal_flow_termination() is called, every
\* unit eventually leaves its loop and join_task_processes eventually
\* returns, the units and the caller being scheduled fairly.
C20_ShutdownLiveness ==
    signalled ~> (exited = {1, 2, 3} /\ join.pc = "returned")

====
